---- MODULE Spec2Model ----
(***************************************************************************)
(* Presence-aware delivery and acknowledgment core of the chat backend:    *)
(* the socket handlers of src/socket.js, the direct-message controller of  *)
(* src/controllers/chat.controller.js and the group-message controller of  *)
(* src/unnamed/part_004 (controllers/group.controller.js).                 *)
(*                                                                         *)
(* Node runs every handler to its next await as one step of the event      *)
(* loop; a storage operation takes effect at some later step.  Each action *)
(* below is one such step: a handler from its entry to its first await, or *)
(* a storage operation together with the continuation that resumes on it.  *)
(* The User collection (isOnline, lastSeen) and Group.updatedAt are        *)
(* written but never read by these handlers and are not part of the state. *)
(***************************************************************************)
EXTENDS Integers, Sequences, FiniteSets, Bags, TLC

VARIABLES
    sockets,       \* socket.id -> "new" | "open" | "closed" (the connections)
    onlineUsers,   \* the Map userId -> socket.id, in insertion order
    messages,      \* the Message collection; _id is the position
    messageCache,  \* the Map cacheKey -> timestamp of the group controller
    tasks,         \* bag of suspended handlers (awaiting a storage operation)
    now,           \* Date.now(), in ms
    resp,          \* the HTTP response issued by the last step, if any
    emits          \* the socket events emitted by the last step

vars == <<sockets, onlineUsers, messages, messageCache, tasks, now, resp, emits>>

----------------------------------------------------------------------------
\* Bounds of the model

MaxMsgs == 2
MaxTasks == 2
MaxTicks == 4
TickMs == 1000

Users == {"u1", "u2", "u3"}
Groups == {"g1"}
Sockets == {"s1", "s2"}
Bodies == {"hi"}
MessageIds == 1..MaxMsgs

\* undefined / null / a field that is not set
None == "none"

----------------------------------------------------------------------------
\* Program constants

SuppressionWindow == 3000
QueryTimeout == 3000
Retention == 10000
SweepInterval == 10000

\* Group.members of the stored groups (group administration is not modelled)
Members(g) == IF g = "g1" THEN {"u1", "u2"} ELSE {}

----------------------------------------------------------------------------
\* JS Map, kept as the sequence of its <<key, value>> entries in insertion order

MapHas(m, k) == \E i \in 1..Len(m) : m[i][1] = k

MapGet(m, k) ==
    IF MapHas(m, k) THEN m[CHOOSE i \in 1..Len(m) : m[i][1] = k][2] ELSE None

MapSetAppend(m, k, v) == Append(m, <<k, v>>)

MapSet(m, k, v) ==
    IF MapHas(m, k)
    THEN [i \in 1..Len(m) |-> IF m[i][1] = k THEN <<k, v>> ELSE m[i]]
    ELSE Append(m, <<k, v>>)

MapKeys(m) == [i \in 1..Len(m) |-> m[i][1]]

MapKeySet(m) == {m[i][1] : i \in 1..Len(m)}

RemoveAt(s, i) == [j \in 1..(Len(s) - 1) |-> IF j < i THEN s[j] ELSE s[j + 1]]

SeqToSet(s) == {s[i] : i \in 1..Len(s)}

RECURSIVE SelectSeqBy(_, _)
\* s.filter(x => x \in keep)
SelectSeqBy(s, keep) ==
    IF s = <<>> THEN <<>>
    ELSE IF Head(s) \in keep
         THEN <<Head(s)>> \o SelectSeqBy(Tail(s), keep)
         ELSE SelectSeqBy(Tail(s), keep)

----------------------------------------------------------------------------
\* Records

NoResp ==
    [op |-> None, code |-> 0, id |-> 0, status |-> None, wasOnline |-> FALSE,
     key |-> <<>>, elapsed |-> 0, msgs |-> <<>>, totalMessages |-> 0, totalPages |-> 0,
     hasMore |-> FALSE]

NoTask ==
    [op |-> None, pc |-> None, senderId |-> None, target |-> None,
     message |-> None, mid |-> 0, userId |-> None, status |-> None,
     deliveredTo |-> <<>>, socketId |-> None, startedAt |-> 0,
     wasOnline |-> FALSE, page |-> 0, limit |-> 0, ids |-> {}]

Event(to, name) ==
    [to |-> to, event |-> name, mid |-> 0, status |-> None, userId |-> None,
     roster |-> <<>>]

Spawn(t) == tasks (+) SetToBag({t})
Finish(t) == tasks (-) SetToBag({t})
Replace(t, u) == (tasks (-) SetToBag({t})) (+) SetToBag({u})
Pending == BagToSet(tasks)
CanSpawn == BagCardinality(tasks) < MaxTasks

----------------------------------------------------------------------------
Init ==
    /\ sockets = [s \in Sockets |-> "new"]
    /\ onlineUsers = <<>>
    /\ messages = <<>>
    /\ messageCache = {}
    /\ tasks = EmptyBag
    /\ now = TickMs
    /\ resp = NoResp
    /\ emits = {}

----------------------------------------------------------------------------
\* Time passes

\* the setTimeout of a pending getGroupMessages has run out: it fires before
\* the clock moves on
TimerDue ==
    \E t \in Pending :
        /\ t.op = "getGroupMessages" /\ t.pc = "query"
        /\ now - t.startedAt >= QueryTimeout

Tick ==
    /\ now < TickMs * (MaxTicks + 1)
    /\ ~TimerDue
    /\ now' = now + TickMs
    /\ resp' = NoResp
    /\ emits' = {}
    /\ UNCHANGED <<sockets, onlineUsers, messages, messageCache, tasks>>

\* A quiet period: the clock moves on by one interval of the cache sweep
\* while no timer of a request is pending
Wait ==
    /\ now <= TickMs * (MaxTicks + 1)
    /\ \A t \in Pending : ~(t.op = "getGroupMessages" /\ t.pc = "query")
    /\ now' = now + SweepInterval
    /\ resp' = NoResp
    /\ emits' = {}
    /\ UNCHANGED <<sockets, onlineUsers, messages, messageCache, tasks>>

----------------------------------------------------------------------------
\* src/socket.js: presence

\* socket.id is a fresh token for each connection: the ids are handed out in
\* the order s1, s2
Earlier(s) == IF s = "s2" THEN {"s1"} ELSE {}

\* io.on("connection")
Connect(s) ==
    /\ sockets[s] = "new"
    /\ \A e \in Earlier(s) : sockets[e] # "new"
    /\ sockets' = [sockets EXCEPT ![s] = "open"]
    /\ resp' = NoResp
    /\ emits' = {}
    /\ UNCHANGED <<onlineUsers, messages, messageCache, tasks, now>>

RosterOfLast(m) ==
    [Event("all", "onlineUsers")
        EXCEPT !.roster = IF m = <<>> THEN <<>> ELSE <<m[Len(m)][1]>>]

\* io.emit("onlineUsers", Array.from(onlineUsers.keys()))
Roster(m) == [Event("all", "onlineUsers") EXCEPT !.roster = MapKeys(m)]

\* socket.on("join")
Join(s, userId) ==
    /\ sockets[s] = "open"
    /\ onlineUsers' = MapSet(onlineUsers, userId, s)
    /\ emits' = {Roster(onlineUsers')}
    /\ resp' = NoResp
    /\ UNCHANGED <<sockets, messages, messageCache, tasks, now>>

DeleteAllOf(m, s) ==
    SelectSeqBy(m, {e \in SeqToSet(m) : e[2] # s})

\* the loop of socket.on("disconnect"): delete the first entry holding s
DeleteFirstOf(m, s) ==
    IF \E i \in 1..Len(m) : m[i][2] = s
    THEN RemoveAt(m, CHOOSE i \in 1..Len(m) :
                        /\ m[i][2] = s
                        /\ \A j \in 1..(i - 1) : m[j][2] # s)
    ELSE m

\* socket.on("disconnect")
Disconnect(s) ==
    /\ sockets[s] = "open"
    /\ sockets' = [sockets EXCEPT ![s] = "closed"]
    /\ onlineUsers' = DeleteFirstOf(onlineUsers, s)
    /\ emits' = {Roster(onlineUsers')}
    /\ resp' = NoResp
    /\ UNCHANGED <<messages, messageCache, tasks, now>>

----------------------------------------------------------------------------
\* The Message collection (src/unnamed/part_006, models/Message.js)

MsgOfBothTargets(senderId, receiverId, groupId, message, status, deliveredTo, createdAt) ==
    [senderId |-> senderId, receiverId |-> receiverId, groupId |-> "g1",
     message |-> message, status |-> status, deliveredTo |-> deliveredTo,
     readBy |-> <<>>, createdAt |-> createdAt]

\* A stored message.  deliveredTo and readBy hold the userId of each entry, in
\* the order of the $push; createdAt is set when Message.create is called.
Msg(senderId, receiverId, groupId, message, status, deliveredTo, createdAt) ==
    [senderId |-> senderId, receiverId |-> receiverId, groupId |-> groupId,
     message |-> message, status |-> status, deliveredTo |-> deliveredTo,
     readBy |-> <<>>, createdAt |-> createdAt]

Stored == 1..Len(messages)

\* creates that have been called and not yet settled
Creating == {t \in Pending : t.pc = "create"}

\* room in the store for one more message (bound of the model)
CanCreate ==
    Len(messages) + BagCardinality([t \in Creating |-> CopiesIn(t, tasks)])
        < MaxMsgs

----------------------------------------------------------------------------
\* src/controllers/chat.controller.js: sendMessage

\* const initialStatus = receiverSocketId ? "delivered" : "sent"
InitialStatusAlwaysSent(receiverSocketId) == "sent"

InitialStatus(receiverSocketId) ==
    IF receiverSocketId # None THEN "delivered" ELSE "sent"

SendResp(op, code, t) ==
    [NoResp EXCEPT !.op = op, !.code = code, !.id = t.mid, !.status = t.status,
                   !.wasOnline = t.wasOnline,
                   !.key = <<t.senderId, t.target, t.message>>]

SendMessageAnsweredFirst(senderId, receiverId, message) ==
    /\ receiverId # None /\ message # None
    /\ CanSpawn
    /\ CanCreate
    /\ LET t == [NoTask EXCEPT
                   !.op = "sendMessage", !.pc = "create",
                   !.senderId = senderId, !.target = receiverId,
                   !.message = message, !.status = "sent", !.startedAt = now]
       IN /\ tasks' = Spawn(t)
          /\ resp' = SendResp("sendMessage", 201, t)
    /\ emits' = {}
    /\ UNCHANGED <<sockets, onlineUsers, messages, messageCache, now>>

\* exports.sendMessage, up to `await Message.create`
SendMessage(senderId, receiverId, message) ==
    IF receiverId = None \/ message = None
    THEN /\ resp' = [NoResp EXCEPT !.op = "sendMessage", !.code = 400]
         /\ emits' = {}
         /\ UNCHANGED <<sockets, onlineUsers, messages, messageCache, tasks, now>>
    ELSE LET receiverSocketId == MapGet(onlineUsers, receiverId)
             initialStatus == InitialStatus(receiverSocketId)
         IN /\ CanSpawn
            /\ CanCreate
            /\ tasks' = Spawn([NoTask EXCEPT
                                 !.op = "sendMessage", !.pc = "create",
                                 !.senderId = senderId, !.target = receiverId,
                                 !.message = message, !.status = initialStatus,
                                 !.socketId = receiverSocketId,
                                 !.startedAt = now,
                                 !.wasOnline = MapHas(onlineUsers, receiverId)])
            /\ resp' = NoResp
            /\ emits' = {}
            /\ UNCHANGED <<sockets, onlineUsers, messages, messageCache, now>>

\* Message.create resolves; the populate query is started and 201 is sent
SendMessageCreated(t) ==
    /\ t.op = "sendMessage" /\ t.pc = "create"
    /\ messages' = Append(messages,
                          Msg(t.senderId, t.target, None, t.message, t.status,
                              <<>>, t.startedAt))
    /\ LET u == [t EXCEPT !.pc = "populate", !.mid = Len(messages')]
       IN /\ tasks' = Replace(t, u)
          /\ resp' = SendResp("sendMessage", 201, u)
    /\ emits' = {}
    /\ UNCHANGED <<sockets, onlineUsers, messageCache, now>>

\* Message.create rejects: rethrown, caught by the outer catch
SendMessageCreateFailed(t) ==
    /\ t.op = "sendMessage" /\ t.pc = "create"
    /\ tasks' = Finish(t)
    /\ resp' = SendResp("sendMessage", 500, t)
    /\ emits' = {}
    /\ UNCHANGED <<sockets, onlineUsers, messages, messageCache, now>>

\* .then of the populate query: emit to the socket looked up before the create
SendMessagePopulated(t) ==
    /\ t.op = "sendMessage" /\ t.pc = "populate"
    /\ tasks' = Finish(t)
    /\ emits' = IF t.socketId # None
                THEN {[Event(t.socketId, "receiveMessage") EXCEPT !.mid = t.mid]}
                ELSE {}
    /\ resp' = NoResp
    /\ UNCHANGED <<sockets, onlineUsers, messages, messageCache, now>>

\* .catch of the populate query: logged
SendMessagePopulateFailed(t) ==
    /\ t.op = "sendMessage" /\ t.pc = "populate"
    /\ tasks' = Finish(t)
    /\ emits' = {}
    /\ resp' = NoResp
    /\ UNCHANGED <<sockets, onlineUsers, messages, messageCache, now>>

----------------------------------------------------------------------------
\* src/unnamed/part_004 (group.controller.js): sendGroupMessage

\* messageCache.get(cacheKey); undefined and 0 are both falsy
CacheGet(cache, key) ==
    IF \E e \in cache : e.key = key
    THEN (CHOOSE e \in cache : e.key = key).ts
    ELSE 0

\* messageCache.set(cacheKey, now)
CacheSet(cache, key, ts) ==
    {e \in cache : e.key # key} \cup {[key |-> key, ts |-> ts]}

ExpiredAtOnce(timestamp, time) == time - timestamp >= 0

\* now - timestamp > 10000
Expired(timestamp, time) == time - timestamp > Retention

\* the callback of setInterval(..., 10000): delete the expired entries.  The
\* phase of the interval relative to the requests is arbitrary: the callback
\* may run at any time
SweepCache ==
    /\ messageCache' = {e \in messageCache : ~Expired(e.ts, now)}
    /\ resp' = NoResp
    /\ emits' = {}
    /\ UNCHANGED <<sockets, onlineUsers, messages, tasks, now>>

\* lastRequest && (now - lastRequest) < 3000
IsDuplicate(lastRequest, time) ==
    lastRequest # 0 /\ (time - lastRequest) < SuppressionWindow

\* onlineUsersMap.forEach: every online user other than the sender
OnlineNotSender(m, senderId) ==
    SelectSeqBy(MapKeys(m), Users \ {senderId})

\* status: deliveredTo.length > 0 ? "delivered" : "sent"
GroupInitialStatus(deliveredTo) ==
    IF Len(deliveredTo) > 0 THEN "delivered" ELSE "sent"

SendGroupMessageCacheFirst(senderId, groupId, message) ==
    /\ groupId = None \/ message = None
    /\ messageCache' = CacheSet(messageCache, <<senderId, groupId, message>>, now)
    /\ resp' = [NoResp EXCEPT !.op = "sendGroupMessage", !.code = 400]
    /\ emits' = {}
    /\ UNCHANGED <<sockets, onlineUsers, messages, tasks, now>>

\* exports.sendGroupMessage, up to `await Message.create`
SendGroupMessage(senderId, groupId, message) ==
    IF groupId = None \/ message = None
    THEN /\ resp' = [NoResp EXCEPT !.op = "sendGroupMessage", !.code = 400]
         /\ emits' = {}
         /\ UNCHANGED <<sockets, onlineUsers, messages, messageCache, tasks, now>>
    ELSE LET cacheKey == <<senderId, groupId, message>>
             lastRequest == CacheGet(messageCache, cacheKey)
         IN IF IsDuplicate(lastRequest, now)
            THEN /\ resp' = [NoResp EXCEPT !.op = "sendGroupMessage",
                                           !.code = 200, !.key = cacheKey]
                 /\ emits' = {}
                 /\ UNCHANGED <<sockets, onlineUsers, messages, messageCache,
                                tasks, now>>
            ELSE LET deliveredTo == OnlineNotSender(onlineUsers, senderId)
                 IN /\ CanSpawn
                    /\ CanCreate
                    /\ messageCache' = CacheSet(messageCache, cacheKey, now)
                    /\ tasks' = Spawn([NoTask EXCEPT
                                 !.op = "sendGroupMessage", !.pc = "create",
                                 !.senderId = senderId, !.target = groupId,
                                 !.message = message,
                                 !.status = GroupInitialStatus(deliveredTo),
                                 !.deliveredTo = deliveredTo,
                                 !.startedAt = now])
                    /\ resp' = NoResp
                    /\ emits' = {}
                    /\ UNCHANGED <<sockets, onlineUsers, messages, now>>

\* Message.create resolves; `await Group.findById` is started
SendGroupMessageCreated(t) ==
    /\ t.op = "sendGroupMessage" /\ t.pc = "create"
    /\ messages' = Append(messages,
                          Msg(t.senderId, None, t.target, t.message, t.status,
                              t.deliveredTo, t.startedAt))
    /\ tasks' = Replace(t, [t EXCEPT !.pc = "findGroup", !.mid = Len(messages')])
    /\ resp' = NoResp
    /\ emits' = {}
    /\ UNCHANGED <<sockets, onlineUsers, messageCache, now>>

\* Message.create rejects: the outer catch answers 500
SendGroupMessageCreateFailed(t) ==
    /\ t.op = "sendGroupMessage" /\ t.pc = "create"
    /\ tasks' = Finish(t)
    /\ resp' = SendResp("sendGroupMessage", 500, t)
    /\ emits' = {}
    /\ UNCHANGED <<sockets, onlineUsers, messages, messageCache, now>>

\* Group.findById resolves: the populate query is started and 201 is sent
SendGroupMessageGroupFound(t) ==
    /\ t.op = "sendGroupMessage" /\ t.pc = "findGroup"
    /\ tasks' = Replace(t, [t EXCEPT !.pc = "populate"])
    /\ resp' = SendResp("sendGroupMessage", 201, t)
    /\ emits' = {}
    /\ UNCHANGED <<sockets, onlineUsers, messages, messageCache, now>>

\* Group.findById rejects after the create: the outer catch answers 500
SendGroupMessageGroupFailed(t) ==
    /\ t.op = "sendGroupMessage" /\ t.pc = "findGroup"
    /\ tasks' = Finish(t)
    /\ resp' = SendResp("sendGroupMessage", 500, t)
    /\ emits' = {}
    /\ UNCHANGED <<sockets, onlineUsers, messages, messageCache, now>>

\* groupMemberIds.forEach of .then and of .catch: every member other than the
\* sender that onlineUsersMap holds now
GroupFanOut(t) ==
    {[Event(MapGet(onlineUsers, memberId), "receiveGroupMessage")
         EXCEPT !.mid = t.mid, !.userId = memberId] :
       memberId \in {m \in Members(t.target) :
                        m # t.senderId /\ MapGet(onlineUsers, m) # None}}

\* .then of Promise.race([populatePromise, timeoutPromise])
SendGroupMessagePopulated(t) ==
    /\ t.op = "sendGroupMessage" /\ t.pc = "populate"
    /\ tasks' = Finish(t)
    /\ emits' = GroupFanOut(t)
    /\ resp' = NoResp
    /\ UNCHANGED <<sockets, onlineUsers, messages, messageCache, now>>

\* .catch of the race (populate error or timeout): emit without population
SendGroupMessagePopulateFailed(t) ==
    /\ t.op = "sendGroupMessage" /\ t.pc = "populate"
    /\ tasks' = Finish(t)
    /\ emits' = {[e EXCEPT !.status = "unpopulated"] : e \in GroupFanOut(t)}
    /\ resp' = NoResp
    /\ UNCHANGED <<sockets, onlineUsers, messages, messageCache, now>>

----------------------------------------------------------------------------
\* src/socket.js: the acknowledgment handlers

SomeSocketOpen == \E s \in Sockets : sockets[s] = "open"

\* io.to(onlineUsers.get(senderId)).emit("messageStatusUpdate", ...), when the
\* sender is online
StatusUpdate(senderId, messageId, status) ==
    IF MapGet(onlineUsers, senderId) # None
    THEN {[Event(MapGet(onlineUsers, senderId), "messageStatusUpdate")
             EXCEPT !.mid = messageId, !.status = status]}
    ELSE {}

\* status: message.status === "sent" ? "delivered" : message.status
DeliveredStatusKept(status) == status

DeliveredStatus(status) == IF status = "sent" THEN "delivered" ELSE status

AckTask(op, messageId, userId, message, status) ==
    [NoTask EXCEPT !.op = op, !.pc = "update", !.mid = messageId,
                   !.userId = userId, !.target = message.groupId,
                   !.senderId = message.senderId, !.status = status]

MessageDeliveredUnchecked(messageId, userId) ==
    /\ SomeSocketOpen
    /\ messageId \in Stored
    /\ CanSpawn
    /\ tasks' = Spawn(AckTask("messageDelivered", messageId, userId,
                              messages[messageId],
                              DeliveredStatus(messages[messageId].status)))
    /\ emits' = {}
    /\ resp' = NoResp
    /\ UNCHANGED <<sockets, onlineUsers, messages, messageCache, now>>

\* socket.on("messageDelivered"): Message.findById resolves and the handler
\* runs to its next await (or to its end)
MessageDelivered(messageId, userId) ==
    /\ SomeSocketOpen
    /\ resp' = NoResp
    /\ IF messageId \notin Stored
       THEN /\ emits' = {}
            /\ UNCHANGED tasks
       ELSE LET message == messages[messageId]
                update ==
                    IF message.groupId # None
                    THEN userId \notin SeqToSet(message.deliveredTo)
                    ELSE message.status = "sent"
            IN IF update
               THEN /\ CanSpawn
                    /\ tasks' = Spawn(AckTask("messageDelivered", messageId,
                                  userId, message,
                                  DeliveredStatus(message.status)))
                    /\ emits' = {}
               ELSE /\ emits' = StatusUpdate(message.senderId, messageId,
                                             "delivered")
                    /\ UNCHANGED tasks
    /\ UNCHANGED <<sockets, onlineUsers, messages, messageCache, now>>

\* the findByIdAndUpdate of messageDelivered, applied to the stored message m:
\* { $push: { deliveredTo }, $set: { status } } for a group message,
\* { status: "delivered" } for a direct one
DeliveredUpdate(m, t) ==
    IF t.target # None
    THEN [m EXCEPT !.deliveredTo = Append(@, t.userId), !.status = t.status]
    ELSE [m EXCEPT !.status = "delivered"]

\* the update of messageDelivered resolves; the sender is notified
MessageDeliveredUpdated(t) ==
    /\ t.op = "messageDelivered" /\ t.pc = "update"
    /\ messages' = [messages EXCEPT ![t.mid] = DeliveredUpdate(@, t)]
    /\ tasks' = Finish(t)
    /\ emits' = StatusUpdate(t.senderId, t.mid, "delivered")
    /\ resp' = NoResp
    /\ UNCHANGED <<sockets, onlineUsers, messageCache, now>>

\* socket.on("messageRead"): Message.findById resolves and the handler runs to
\* its next await (or to its end)
MessageRead(messageId, userId) ==
    /\ SomeSocketOpen
    /\ resp' = NoResp
    /\ IF messageId \notin Stored
       THEN /\ emits' = {}
            /\ UNCHANGED tasks
       ELSE LET message == messages[messageId]
                update ==
                    IF message.groupId # None
                    THEN userId \notin SeqToSet(message.readBy)
                    ELSE TRUE
            IN IF update
               THEN /\ CanSpawn
                    /\ tasks' = Spawn(AckTask("messageRead", messageId, userId,
                                              message, "read"))
                    /\ emits' = {}
               ELSE /\ emits' = StatusUpdate(message.senderId, messageId, "read")
                    /\ UNCHANGED tasks
    /\ UNCHANGED <<sockets, onlineUsers, messages, messageCache, now>>

ReadUpdateWithDelivery(m, t) ==
    IF t.target # None
    THEN [m EXCEPT !.readBy = Append(@, t.userId),
                   !.deliveredTo = Append(@, t.userId)]
    ELSE [m EXCEPT !.status = "read"]

\* the findByIdAndUpdate of messageRead, applied to the stored message m:
\* { $push: { readBy } } for a group message, { status: "read" } for a direct one
ReadUpdate(m, t) ==
    IF t.target # None
    THEN [m EXCEPT !.readBy = Append(@, t.userId)]
    ELSE [m EXCEPT !.status = "read"]

\* the update of messageRead resolves; the sender is notified
MessageReadUpdated(t) ==
    /\ t.op = "messageRead" /\ t.pc = "update"
    /\ messages' = [messages EXCEPT ![t.mid] = ReadUpdate(@, t)]
    /\ tasks' = Finish(t)
    /\ emits' = StatusUpdate(t.senderId, t.mid, "read")
    /\ resp' = NoResp
    /\ UNCHANGED <<sockets, onlineUsers, messageCache, now>>

MarkReadOfSender(msgs, senderId, receiverId) ==
    [i \in 1..Len(msgs) |->
        IF msgs[i].senderId = senderId /\ msgs[i].status # "read"
        THEN [msgs[i] EXCEPT !.status = "read"]
        ELSE msgs[i]]

\* Message.updateMany({ senderId, receiverId, status: { $ne: "read" } },
\*                    { status: "read" })
MarkRead(msgs, senderId, receiverId) ==
    [i \in 1..Len(msgs) |->
        IF /\ msgs[i].senderId = senderId
           /\ msgs[i].receiverId = receiverId
           /\ msgs[i].status # "read"
        THEN [msgs[i] EXCEPT !.status = "read"]
        ELSE msgs[i]]

MarkedRead(name, senderId, receiverId) ==
    IF MapGet(onlineUsers, senderId) # None
    THEN {[Event(MapGet(onlineUsers, senderId), name)
             EXCEPT !.userId = receiverId]}
    ELSE {}

\* socket.on("markMessagesRead"): the updateMany resolves; the sender is notified
MarkMessagesRead(senderId, receiverId) ==
    /\ SomeSocketOpen
    /\ messages' = MarkRead(messages, senderId, receiverId)
    /\ emits' = MarkedRead("messagesMarkedRead", senderId, receiverId)
    /\ resp' = NoResp
    /\ UNCHANGED <<sockets, onlineUsers, messageCache, tasks, now>>

\* src/controllers/chat.controller.js, exports.markAsRead: the updateMany
\* resolves; the sender is notified and 200 is sent
MarkAsRead(senderId, receiverId) ==
    /\ messages' = MarkRead(messages, senderId, receiverId)
    /\ emits' = MarkedRead("messagesRead", senderId, receiverId)
    /\ resp' = [NoResp EXCEPT !.op = "markAsRead", !.code = 200]
    /\ UNCHANGED <<sockets, onlineUsers, messageCache, tasks, now>>

\* exports.markAsRead: the updateMany rejects
MarkAsReadFailed(senderId, receiverId) ==
    /\ resp' = [NoResp EXCEPT !.op = "markAsRead", !.code = 500]
    /\ emits' = {}
    /\ UNCHANGED <<sockets, onlineUsers, messages, messageCache, tasks, now>>

----------------------------------------------------------------------------
\* History: getMessages (chat.controller.js), getGroupMessages (part_004)

\* the query of getMessages: either direction of the pair, no groupId
DirectQuery(msgs, a, b) ==
    {i \in 1..Len(msgs) :
        /\ \/ msgs[i].senderId = a /\ msgs[i].receiverId = b
           \/ msgs[i].senderId = b /\ msgs[i].receiverId = a
        /\ msgs[i].groupId = None}

\* the query of getGroupMessages: { groupId }
GroupQuery(msgs, groupId) == {i \in 1..Len(msgs) : msgs[i].groupId = groupId}

\* the orders .sort({ createdAt: -1 }) can return ids in: newest first, and
\* messages of equal createdAt in any order (the sort names no other key, and
\* each query orders its ties on its own)
SortDesc(msgs, ids) ==
    {s \in [1..Cardinality(ids) -> ids] :
        /\ \A i \in DOMAIN s : \A j \in DOMAIN s : i # j => s[i] # s[j]
        /\ \A i \in DOMAIN s : \A j \in DOMAIN s :
              i < j => msgs[s[i]].createdAt >= msgs[s[j]].createdAt}

Min(a, b) == IF a < b THEN a ELSE b

\* .skip(skip).limit(limit)
SkipLimit(s, skip, limit) == SubSeq(s, skip + 1, Min(skip + limit, Len(s)))

ReverseOmitted(s) == s

\* messages.reverse()
Reverse(s) == [i \in 1..Len(s) |-> s[Len(s) + 1 - i]]

\* Math.ceil(totalMessages / limit)
CeilDiv(a, b) == (a + b - 1) \div b

\* the page of a fetch, oldest first, cut from the sorted result of its find
PageOf(sorted, page, limit) ==
    Reverse(SkipLimit(sorted, (page - 1) * limit, limit))

FetchTask(op, userId, target, page, limit) ==
    [NoTask EXCEPT !.op = op, !.pc = "query", !.senderId = userId,
                   !.target = target, !.page = page, !.limit = limit,
                   !.startedAt = now]

\* res.status(200).json({ messages, pagination }) of both fetches
PageResp(t, ids, found) ==
    LET totalMessages == Cardinality(ids)
    IN [NoResp EXCEPT
          !.op = t.op, !.code = 200, !.msgs = found,
          !.totalMessages = totalMessages,
          !.totalPages = CeilDiv(totalMessages, t.limit),
          !.hasMore = ((t.page - 1) * t.limit + Len(found) < totalMessages),
          !.elapsed = now - t.startedAt]

\* the empty page getGroupMessages answers from its inner catch
EmptyResp(t) ==
    [NoResp EXCEPT !.op = t.op, !.code = 200, !.elapsed = now - t.startedAt]

\* exports.getMessages, up to `await Promise.all`
GetMessages(senderId, receiverId, page, limit) ==
    /\ CanSpawn
    /\ tasks' = Spawn(FetchTask("getMessages", senderId, receiverId, page, limit))
    /\ resp' = NoResp
    /\ emits' = {}
    /\ UNCHANGED <<sockets, onlineUsers, messages, messageCache, now>>

\* the messages of the page addressed to the requester and still sent
Undelivered(found, senderId) ==
    {i \in SeqToSet(found) :
        messages[i].receiverId = senderId /\ messages[i].status = "sent"}

\* count and find resolve: the bulk update is started without being awaited,
\* the other party is notified and the page is sent
GetMessagesQueried(t) ==
    /\ t.op = "getMessages" /\ t.pc = "query"
    /\ \E sorted \in SortDesc(messages,
                                DirectQuery(messages, t.senderId, t.target)) :
       LET ids == DirectQuery(messages, t.senderId, t.target)
           reversedMessages == PageOf(sorted, t.page, t.limit)
           undeliveredIds == Undelivered(reversedMessages, t.senderId)
       IN /\ resp' = PageResp(t, ids, reversedMessages)
          /\ IF undeliveredIds # {}
             THEN /\ tasks' = Replace(t, [t EXCEPT !.pc = "bulk",
                                                   !.ids = undeliveredIds])
                  /\ emits' = MarkedRead("messagesDelivered", t.target,
                                         t.senderId)
             ELSE /\ tasks' = Finish(t)
                  /\ emits' = {}
    /\ UNCHANGED <<sockets, onlineUsers, messages, messageCache, now>>

\* count or find rejects: the catch answers 500
GetMessagesQueryFailed(t) ==
    /\ t.op = "getMessages" /\ t.pc = "query"
    /\ tasks' = Finish(t)
    /\ resp' = [NoResp EXCEPT !.op = t.op, !.code = 500,
                              !.elapsed = now - t.startedAt]
    /\ emits' = {}
    /\ UNCHANGED <<sockets, onlineUsers, messages, messageCache, now>>

\* Message.updateMany({ _id: { $in: undeliveredIds }, status: "sent" },
\*                    { status: "delivered" })
MarkDelivered(msgs, ids) ==
    [i \in 1..Len(msgs) |->
        IF i \in ids /\ msgs[i].status = "sent"
        THEN [msgs[i] EXCEPT !.status = "delivered"]
        ELSE msgs[i]]

\* the bulk update of getMessages resolves
GetMessagesBulkApplied(t) ==
    /\ t.op = "getMessages" /\ t.pc = "bulk"
    /\ messages' = MarkDelivered(messages, t.ids)
    /\ tasks' = Finish(t)
    /\ resp' = NoResp
    /\ emits' = {}
    /\ UNCHANGED <<sockets, onlineUsers, messageCache, now>>

\* the bulk update of getMessages rejects; nothing handles the rejection
GetMessagesBulkFailed(t) ==
    /\ t.op = "getMessages" /\ t.pc = "bulk"
    /\ tasks' = Finish(t)
    /\ resp' = NoResp
    /\ emits' = {Event("process", "unhandledRejection")}
    /\ UNCHANGED <<sockets, onlineUsers, messages, messageCache, now>>

\* exports.getGroupMessages, up to `await Promise.race`
GetGroupMessages(userId, groupId, page, limit) ==
    /\ CanSpawn
    /\ tasks' = Spawn(FetchTask("getGroupMessages", userId, groupId, page, limit))
    /\ resp' = NoResp
    /\ emits' = {}
    /\ UNCHANGED <<sockets, onlineUsers, messages, messageCache, now>>

\* count and find resolve before the 3000 ms timer fires
GetGroupMessagesQueried(t) ==
    /\ t.op = "getGroupMessages" /\ t.pc = "query"
    /\ now - t.startedAt <= QueryTimeout
    /\ tasks' = Finish(t)
    /\ \E sorted \in SortDesc(messages, GroupQuery(messages, t.target)) :
          resp' = PageResp(t, GroupQuery(messages, t.target),
                           PageOf(sorted, t.page, t.limit))
    /\ emits' = {}
    /\ UNCHANGED <<sockets, onlineUsers, messages, messageCache, now>>

\* count or find rejects (maxTimeMS or any other error) before the timer fires
GetGroupMessagesQueryFailed(t) ==
    /\ t.op = "getGroupMessages" /\ t.pc = "query"
    /\ now - t.startedAt <= QueryTimeout
    /\ tasks' = Finish(t)
    /\ resp' = EmptyResp(t)
    /\ emits' = {}
    /\ UNCHANGED <<sockets, onlineUsers, messages, messageCache, now>>

\* the 3000 ms timer fires first: 'Query timeout'
GetGroupMessagesTimedOut(t) ==
    /\ t.op = "getGroupMessages" /\ t.pc = "query"
    /\ now - t.startedAt >= QueryTimeout
    /\ tasks' = Finish(t)
    /\ resp' = EmptyResp(t)
    /\ emits' = {}
    /\ UNCHANGED <<sockets, onlineUsers, messages, messageCache, now>>

----------------------------------------------------------------------------
\* The requests of the clients, over the senders S, the direct receivers R
\* and the users J that join

DirectSends(S, R) ==
    \/ \E s \in S, r \in R \cup {None}, b \in Bodies \cup {None} :
            SendMessage(s, r, b)
    \/ \E t \in Pending : SendMessageCreated(t)
    \/ \E t \in Pending : SendMessageCreateFailed(t)
    \/ \E t \in Pending : SendMessagePopulated(t)
    \/ \E t \in Pending : SendMessagePopulateFailed(t)

\* The direct sends of the <<sender, receiver>> pairs P
DirectSendsBetween(P) ==
    \/ \E p \in P, b \in Bodies \cup {None} : SendMessage(p[1], p[2], b)
    \/ \E t \in Pending : SendMessageCreated(t)
    \/ \E t \in Pending : SendMessageCreateFailed(t)
    \/ \E t \in Pending : SendMessagePopulated(t)
    \/ \E t \in Pending : SendMessagePopulateFailed(t)

GroupSends(S) ==
    \/ \E s \in S, g \in Groups \cup {None}, b \in Bodies \cup {None} :
            SendGroupMessage(s, g, b)
    \/ \E t \in Pending : SendGroupMessageCreated(t)
    \/ \E t \in Pending : SendGroupMessageCreateFailed(t)
    \/ \E t \in Pending : SendGroupMessageGroupFound(t)
    \/ \E t \in Pending : SendGroupMessageGroupFailed(t)
    \/ \E t \in Pending : SendGroupMessagePopulated(t)
    \/ \E t \in Pending : SendGroupMessagePopulateFailed(t)

Presence(J) ==
    \/ \E s \in Sockets : Connect(s)
    \/ \E s \in Sockets, u \in J : Join(s, u)
    \/ \E s \in Sockets : Disconnect(s)

\* The per-message acknowledgments of the users A
MessageAcks(A) ==
    \/ \E i \in MessageIds, u \in A : MessageDelivered(i, u)
    \/ \E t \in Pending : MessageDeliveredUpdated(t)
    \/ \E i \in MessageIds, u \in A : MessageRead(i, u)
    \/ \E t \in Pending : MessageReadUpdated(t)

\* The bulk reads by the users A of the messages of the senders S
BulkReads(A, S) ==
    \/ \E s \in S, r \in A : MarkMessagesRead(s, r)
    \/ \E s \in S, r \in A : MarkAsRead(s, r)
    \/ \E s \in S, r \in A : MarkAsReadFailed(s, r)

\* The direct history fetches of the users F with the users R, of pages P
\* with page sizes L
DirectFetches(F, R, P, L) ==
    \/ \E a \in F, b \in R, p \in P, l \in L : GetMessages(a, b, p, l)
    \/ \E t \in Pending : GetMessagesQueried(t)
    \/ \E t \in Pending : GetMessagesQueryFailed(t)
    \/ \E t \in Pending : GetMessagesBulkApplied(t)
    \/ \E t \in Pending : GetMessagesBulkFailed(t)

\* The group history fetches of the users F
GroupFetches(F, P, L) ==
    \/ \E a \in F, g \in Groups, p \in P, l \in L :
            GetGroupMessages(a, g, p, l)
    \/ \E t \in Pending : GetGroupMessagesQueried(t)
    \/ \E t \in Pending : GetGroupMessagesQueryFailed(t)
    \/ \E t \in Pending : GetGroupMessagesTimedOut(t)

\* Every request of every client
Next ==
    \/ Tick
    \/ Wait
    \/ SweepCache
    \/ Presence(Users)
    \/ DirectSends(Users, Users)
    \/ GroupSends(Users)
    \/ MessageAcks(Users)
    \/ BulkReads(Users, Users)
    \/ DirectFetches(Users, Users, {1, 2}, {1, 2})
    \/ GroupFetches(Users, {1, 2}, {1, 2})

Spec == Init /\ [][Next]_vars

\* Direct sends from u1 to u2 while u2 comes and goes
NextDirect ==
    \/ Tick
    \/ Presence({"u2"})
    \/ DirectSends({"u1"}, {"u2"})

SpecDirect == Init /\ [][NextDirect]_vars

\* Group sends from u1 while the member u2 and the outsider u3 come and go
NextGroup ==
    \/ Tick
    \/ Presence({"u2", "u3"})
    \/ GroupSends({"u1"})

SpecGroup == Init /\ [][NextGroup]_vars

\* u1 sends to u2 and to the group; u2 joins, acknowledges and fetches
NextAck ==
    \/ Presence({"u2"})
    \/ DirectSends({"u1"}, {"u2"})
    \/ GroupSends({"u1"})
    \/ MessageAcks({"u2"})
    \/ BulkReads({"u2"}, {"u1"})
    \/ DirectFetches({"u2"}, {"u1"}, {1}, {2})

SpecAck == Init /\ [][NextAck]_vars

\* u1 and u2 send to the group; u2 joins and acknowledges
NextGroupAck ==
    \/ Presence({"u2"})
    \/ GroupSends({"u1", "u2"})
    \/ MessageAcks({"u2"})

SpecGroupAck == Init /\ [][NextGroupAck]_vars

\* u1 sends to u2 and to the group; u2 fetches both histories as time passes
NextHistory ==
    \/ Tick
    \/ DirectSends({"u1"}, {"u2"})
    \/ GroupSends({"u1"})
    \/ DirectFetches({"u2"}, {"u1"}, {1, 2}, {1})
    \/ GroupFetches({"u2"}, {1, 2}, {1})

SpecHistory == Init /\ [][NextHistory]_vars

\* u1 sends to u2 and to the group as time passes; u2 fetches the first page
\* of the direct history and the pages of the group history
NextPages ==
    \/ Tick
    \/ DirectSends({"u1"}, {"u2"})
    \/ GroupSends({"u1"})
    \/ DirectFetches({"u2"}, {"u1"}, {1}, {2})
    \/ GroupFetches({"u2"}, {1, 2}, {1, 2})

SpecPages == Init /\ [][NextPages]_vars

\* u1 joins and sends to u2, who stays offline, acknowledges, reads in bulk
\* and fetches the history
NextNotify ==
    \/ Presence({"u1"})
    \/ DirectSends({"u1"}, {"u2"})
    \/ MessageAcks({"u2"})
    \/ BulkReads({"u2"}, {"u1"})
    \/ DirectFetches({"u2"}, {"u1"}, {1}, {2})

SpecNotify == Init /\ [][NextNotify]_vars

\* Every user connects, joins and disconnects
NextPresence == Presence(Users)

SpecPresence == Init /\ [][NextPresence]_vars

\* u1 sends to u2, and u1 and u2 send to the group
NextSends ==
    \/ DirectSends({"u1"}, {"u2"})
    \/ GroupSends({"u1", "u2"})

SpecSends == Init /\ [][NextSends]_vars

\* u1 and u2 send to each other and u1 to the group; u1 comes and goes and
\* u2 reads the messages of u1 in bulk
NextBulkRead ==
    \/ Presence({"u1"})
    \/ DirectSendsBetween({<<"u1", "u2">>, <<"u2", "u1">>})
    \/ GroupSends({"u1"})
    \/ BulkReads({"u2"}, {"u1"})

SpecBulkRead == Init /\ [][NextBulkRead]_vars

\* u1 sends to u2 and to the group as time passes
NextOrder ==
    \/ Tick
    \/ DirectSendsBetween({<<"u1", "u2">>})
    \/ GroupSends({"u1"})

SpecOrder == Init /\ [][NextOrder]_vars

\* u1 sends to u2 and to the group; u2 joins, acknowledges every message,
\* more than once, and reads the messages of u1 in bulk
NextTwice ==
    \/ Presence({"u2"})
    \/ DirectSendsBetween({<<"u1", "u2">>})
    \/ GroupSends({"u1"})
    \/ MessageAcks({"u2"})
    \/ BulkReads({"u2"}, {"u1"})

SpecTwice == Init /\ [][NextTwice]_vars

\* u1 and u2 send to the group over short and long periods while the cache
\* is swept
NextSweep ==
    \/ Tick
    \/ Wait
    \/ SweepCache
    \/ GroupSends({"u1", "u2"})

SpecSweep == Init /\ [][NextSweep]_vars

----------------------------------------------------------------------------
\* Properties

Rank(status) ==
    CASE status = "sent" -> 1
      [] status = "delivered" -> 2
      [] status = "read" -> 3

NoDuplicates(s) == Cardinality(SeqToSet(s)) = Len(s)

SameTarget(m, n) ==
    /\ m.senderId = n.senderId
    /\ m.receiverId = n.receiverId
    /\ m.groupId = n.groupId
    /\ m.message = n.message

\* C1: no step moves the stored status of a message backward along
\* sent -> delivered -> read, whatever sends, acknowledgments, bulk reads and
\* history fetches are interleaved.
C1_StatusOnlyForward ==
    [][\A i \in Stored :
          Rank(messages'[i].status) >= Rank(messages[i].status)]_vars

\* C2: deliveredTo and readBy of every message hold at most one entry per
\* userId, also with two acknowledgments of the same (messageId, userId) in
\* flight at once.
C2_OneEntryPerUser ==
    \A i \in Stored :
        /\ NoDuplicates(messages[i].deliveredTo)
        /\ NoDuplicates(messages[i].readBy)

\* C3: two sends of the same (senderId, target, body) less than 3000 ms apart
\* leave one persisted message: any two persisted messages of one sender,
\* target and body were sent at least 3000 ms apart, for a direct target as
\* for a group.
C3_OnePerWindow ==
    \A i \in Stored : \A j \in Stored :
        (i # j /\ SameTarget(messages[i], messages[j]))
            => \/ messages[i].createdAt - messages[j].createdAt >= SuppressionWindow
               \/ messages[j].createdAt - messages[i].createdAt >= SuppressionWindow

\* the task the step has started, if it started one
Started(t) == CopiesIn(t, tasks') > CopiesIn(t, tasks)

\* C4: a group send persists as deliveredTo exactly the users that are online,
\* members of the group and not the sender at the moment of the send, each
\* once, with status delivered iff there is one; an online user outside the
\* group is never included.
C4_DeliveredToOnlineMembers ==
    [][/\ \A t \in BagToSet(tasks') :
            (t.op = "sendGroupMessage" /\ t.pc = "create" /\ Started(t))
                => /\ SeqToSet(t.deliveredTo) =
                        {u \in Members(t.target) :
                            u # t.senderId /\ MapHas(onlineUsers, u)}
                   /\ NoDuplicates(t.deliveredTo)
                   /\ t.status = IF t.deliveredTo # <<>> THEN "delivered"
                                                         ELSE "sent"
       /\ \A t \in Pending :
            SendGroupMessageCreated(t)
                => /\ messages'[Len(messages')].deliveredTo = t.deliveredTo
                   /\ messages'[Len(messages')].status = t.status]_vars

\* C5: a direct send answered 201 has persisted, and reports, status delivered
\* if the presence registry held an entry for the receiver when the request
\* was handled, and sent otherwise.
C5_DirectInitialStatus ==
    (resp.op = "sendMessage" /\ resp.code = 201)
        => /\ resp.id \in Stored
           /\ messages[resp.id].status = resp.status
           /\ resp.wasOnline => resp.status = "delivered"
           /\ ~resp.wasOnline => resp.status = "sent"

\* C5, its case: the receiver was online at the lookup, has disconnected
\* since, and the send is answered delivered
C5_Witness ==
    /\ resp.op = "sendMessage" /\ resp.code = 201
    /\ resp.wasOnline
    /\ resp.status = "delivered"
    /\ ~MapHas(onlineUsers, "u2")

\* C6: once the update of a messageRead is applied, the stored status of the
\* message is read, for a direct message as for a group message.
C6_ReadSetsStatus ==
    [][\A t \in Pending :
          MessageReadUpdated(t) => messages'[t.mid].status = "read"]_vars

\* C7: a messageRead on a group message by a user without an entry in
\* deliveredTo records the user in readBy and leaves deliveredTo as it was;
\* no step of messageRead writes deliveredTo.
C7_ReadLeavesDeliveredTo ==
    [][/\ \A t \in Pending :
            (/\ MessageReadUpdated(t)
             /\ t.target # None
             /\ t.userId \notin SeqToSet(messages[t.mid].deliveredTo))
                => /\ t.userId \in SeqToSet(messages'[t.mid].readBy)
                   /\ messages'[t.mid].deliveredTo = messages[t.mid].deliveredTo
       /\ \/ messages' = messages
          \/ \A i \in MessageIds, u \in Users : ~MessageRead(i, u)]_vars

\* C7, its case: a group message read by u2, who has no entry in deliveredTo
C7_Witness ==
    \E i \in Stored :
        /\ messages[i].groupId # None
        /\ "u2" \in SeqToSet(messages[i].readBy)
        /\ "u2" \notin SeqToSet(messages[i].deliveredTo)

\* C8: a send answered with a failure has persisted no message, and a send
\* answered as created has persisted its message.
C8_ResponseMatchesStore ==
    (resp.op \in {"sendMessage", "sendGroupMessage"})
        => /\ resp.code = 500 => resp.id = 0
           /\ resp.code = 201
                => /\ resp.id \in Stored
                   /\ <<messages[resp.id].senderId,
                        IF resp.op = "sendMessage"
                        THEN messages[resp.id].receiverId
                        ELSE messages[resp.id].groupId,
                        messages[resp.id].message>> = resp.key

\* C9: a group send answered as a suppressed duplicate follows a send of the
\* same sender, group and body within the last 3000 ms whose message is
\* persisted (or whose create is still in flight); a send whose create failed
\* makes no later send a duplicate.
C9_DuplicateHasOriginal ==
    (resp.op = "sendGroupMessage" /\ resp.code = 200)
        => \/ \E i \in Stored :
                /\ <<messages[i].senderId, messages[i].groupId,
                     messages[i].message>> = resp.key
                /\ now - messages[i].createdAt < SuppressionWindow
           \/ \E t \in Creating :
                /\ t.op = "sendGroupMessage"
                /\ <<t.senderId, t.target, t.message>> = resp.key

\* C10: a history fetch, direct or group, whose queries have not completed
\* within the timeout is not left waiting, and is answered 200 with no
\* messages, totalMessages 0 and hasMore false.
C10_TimeoutGivesEmptyPage ==
    /\ \A t \in Pending :
          (t.op \in {"getMessages", "getGroupMessages"} /\ t.pc = "query")
              => now - t.startedAt <= QueryTimeout
    /\ (resp.op \in {"getMessages", "getGroupMessages"}
            /\ resp.elapsed > QueryTimeout)
          => /\ resp.code = 200
             /\ resp.msgs = <<>>
             /\ resp.totalMessages = 0
             /\ ~resp.hasMore

\* the conversation a fetch reads
Conversation(t) ==
    IF t.op = "getMessages"
    THEN DirectQuery(messages, t.senderId, t.target)
    ELSE GroupQuery(messages, t.target)

OldestFirst(page) ==
    \A i \in 1..Len(page) : \A j \in 1..Len(page) :
        i < j => messages[page[i]].createdAt <= messages[page[j]].createdAt

\* C11: a fetch, direct or group, that is answered from its queries reports,
\* for the N messages of its conversation, totalPages = ceil(N / limit) (the
\* least number of pages of that size that hold N messages) and
\* hasMore = (skip + returned < N), and its page is in non-decreasing
\* createdAt order.
C11_PageShape ==
    [][\A t \in Pending :
          (GetMessagesQueried(t) \/ GetGroupMessagesQueried(t))
              => LET N == Cardinality(Conversation(t))
                     skip == (t.page - 1) * t.limit
                 IN /\ resp'.code = 200
                    /\ resp'.totalMessages = N
                    /\ resp'.totalPages * t.limit >= N
                    /\ (resp'.totalPages - 1) * t.limit < N
                    /\ resp'.hasMore = (skip + Len(resp'.msgs) < N)
                    /\ OldestFirst(resp'.msgs)]_vars

\* C11, its case: a page of two messages created at different times, the
\* older one first
C11_Witness ==
    /\ resp.op \in {"getMessages", "getGroupMessages"}
    /\ resp.code = 200
    /\ Len(resp.msgs) = 2
    /\ messages[resp.msgs[1]].createdAt < messages[resp.msgs[2]].createdAt

RECURSIVE PagesFetched(_, _, _)
\* the pages 1..n of a conversation one after the other, page p cut from the
\* sorted result f[p] of its own find
PagesFetched(f, limit, n) ==
    IF n = 0 THEN <<>>
    ELSE PagesFetched(f, limit, n - 1) \o PageOf(f[n], n, limit)

\* every message of ids is returned once, and nothing else, by the fetches of
\* the pages 1..totalPages, whatever each find returns
EachOnce(ids, limit) ==
    LET totalPages == CeilDiv(Cardinality(ids), limit)
    IN \A f \in [1..totalPages -> SortDesc(messages, ids)] :
          LET all == PagesFetched(f, limit, totalPages)
          IN Len(all) = Cardinality(ids) /\ SeqToSet(all) = ids

\* C12: with the store as it is (no message created between the page
\* requests), the pages 1..totalPages of a direct conversation (a, b) hold
\* each message sent a -> b or b -> a without a group exactly once and no
\* other message, and the pages of a group hold each message of the group
\* exactly once and no other.
C12_PagesPartition ==
    /\ \A a \in Users, b \in Users, limit \in {1, 2} :
          /\ DirectQuery(messages, a, b) =
                {i \in Stored : /\ messages[i].groupId = None
                                /\ <<messages[i].senderId, messages[i].receiverId>>
                                       \in {<<a, b>>, <<b, a>>}}
          /\ EachOnce(DirectQuery(messages, a, b), limit)
    /\ \A g \in Groups, limit \in {1, 2} :
          /\ GroupQuery(messages, g) = {i \in Stored : messages[i].groupId = g}
          /\ EachOnce(GroupQuery(messages, g), limit)

\* C13: when R fetches the S-R history while a message S -> R is stored with
\* status sent, the message is in the returned page, the update that makes
\* it delivered is started, and S, if online, is sent a messageStatusUpdate
\* event with status delivered.
C13_FetchDelivers ==
    [][\A t \in Pending : \A i \in Stored :
          (/\ GetMessagesQueried(t)
           /\ messages[i].senderId = t.target
           /\ messages[i].receiverId = t.senderId
           /\ messages[i].groupId = None
           /\ messages[i].status = "sent")
              => /\ i \in SeqToSet(resp'.msgs)
                 /\ \E u \in BagToSet(tasks') : u.pc = "bulk" /\ i \in u.ids
                 /\ MapHas(onlineUsers, t.target)
                      => \E e \in emits' :
                            /\ e.to = MapGet(onlineUsers, t.target)
                            /\ e.event = "messageStatusUpdate"
                            /\ e.status = "delivered"]_vars

\* C14: a disconnect of the handle s removes at most one entry of the
\* registry, and only an entry that holds s; the entry of every user that
\* does not hold s is unchanged, and when no entry holds s the registry is
\* unchanged.
C14_DisconnectRemovesOwnEntry ==
    [][\A s \in Sockets :
          Disconnect(s)
              => /\ SeqToSet(onlineUsers') \subseteq SeqToSet(onlineUsers)
                 /\ Len(onlineUsers') >= Len(onlineUsers) - 1
                 /\ \A e \in SeqToSet(onlineUsers) \ SeqToSet(onlineUsers') :
                        e[2] = s
                 /\ \A u \in Users :
                        MapGet(onlineUsers, u) # s
                            => MapGet(onlineUsers', u) = MapGet(onlineUsers, u)
                 /\ (\A u \in Users : MapGet(onlineUsers, u) # s)
                        => onlineUsers' = onlineUsers]_vars

\* C14, its case: s1 has disconnected while two users were registered on it
\* and a third on s2; one entry of s1 is gone, the other two are in place
C14_Witness ==
    /\ sockets["s1"] = "closed"
    /\ Len(onlineUsers) = 2
    /\ \E u \in Users : MapGet(onlineUsers, u) = "s1"
    /\ \E u \in Users : MapGet(onlineUsers, u) = "s2"

\* C15: the registry holds at most one entry per userId; after a join of u
\* on the handle s a lookup of u returns s, whatever handle u held before,
\* and the lookup of every other user returns what it returned before.
C15_LastJoinWins ==
    [][/\ \A i \in 1..Len(onlineUsers') : \A j \in 1..Len(onlineUsers') :
            i # j => onlineUsers'[i][1] # onlineUsers'[j][1]
       /\ \A s \in Sockets, u \in Users :
            Join(s, u)
                => /\ MapGet(onlineUsers', u) = s
                   /\ \A v \in Users \ {u} :
                          MapGet(onlineUsers', v) = MapGet(onlineUsers, v)]_vars

\* C15, its case: u2 is registered on s2, the later of the two handles,
\* while the earlier handle s1 is still open and holds no entry
C15_Witness ==
    /\ sockets["s1"] = "open"
    /\ onlineUsers = << <<"u2", "s2">> >>
    /\ emits = {Roster(onlineUsers)}

\* C16: every join and every disconnect emits to all clients exactly one
\* onlineUsers event, whose payload holds each userId of the registry as it
\* is after the join or the disconnect, once, and nothing else.
C16_FullRosterBroadcast ==
    [][\A s \in Sockets :
          (Disconnect(s) \/ \E u \in Users : Join(s, u))
              => \E e \in emits' :
                    /\ emits' = {e}
                    /\ e.to = "all"
                    /\ e.event = "onlineUsers"
                    /\ SeqToSet(e.roster) = MapKeySet(onlineUsers')
                    /\ Len(e.roster) = Len(onlineUsers')]_vars

\* C16, its case: a broadcast that names three users at once
C16_Witness ==
    \E e \in emits :
        /\ e.event = "onlineUsers"
        /\ SeqToSet(e.roster) = Users

\* C17: a direct or group send without a body or without a target is
\* answered 400, and the step that answers 400 persists no message, records
\* or refreshes no duplicate-suppression entry, starts no storage operation
\* and emits no event.
C17_RejectedSendChangesNothing ==
    [][/\ \A s \in Users, b \in Bodies \cup {None} :
            /\ \A r \in Users \cup {None} :
                  ((r = None \/ b = None) /\ SendMessage(s, r, b))
                      => (resp'.op = "sendMessage" /\ resp'.code = 400)
            /\ \A g \in Groups \cup {None} :
                  ((g = None \/ b = None) /\ SendGroupMessage(s, g, b))
                      => (resp'.op = "sendGroupMessage" /\ resp'.code = 400)
       /\ resp'.code = 400
            => /\ messages' = messages
               /\ messageCache' = messageCache
               /\ tasks' = tasks
               /\ onlineUsers' = onlineUsers
               /\ emits' = {}]_vars

\* C17, its case: a group send is rejected while the store holds a message
\* and the cache holds an entry
C17_Witness ==
    /\ resp.op = "sendGroupMessage"
    /\ resp.code = 400
    /\ messages # <<>>
    /\ messageCache # {}

\* C20: every persisted message has exactly one of receiverId and groupId.
C20_OneTarget ==
    \A i \in Stored :
        (messages[i].receiverId # None) # (messages[i].groupId # None)

\* C20, its case: the store holds a direct message and a group message
C20_Witness ==
    /\ \E i \in Stored : messages[i].receiverId # None
    /\ \E i \in Stored : messages[i].groupId # None

\* the direct messages from senderId to receiverId
FromTo(senderId, receiverId) ==
    {i \in Stored : /\ messages[i].senderId = senderId
                    /\ messages[i].receiverId = receiverId
                    /\ messages[i].groupId = None}

\* C18: a messageDelivered or messageRead that names no stored message, and
\* a bulk read of a pair without messages, change no message, start no
\* update and emit nothing; the update of an acknowledgment whose sender is
\* offline is applied to the stored message and emits nothing.
C18_MissingMessageIsNoOp ==
    [][/\ \A i \in MessageIds, u \in Users :
            (i \notin Stored /\ (MessageDelivered(i, u) \/ MessageRead(i, u)))
                => (messages' = messages /\ tasks' = tasks /\ emits' = {})
       /\ \A s \in Users, r \in Users :
            (/\ FromTo(s, r) = {}
             /\ MarkMessagesRead(s, r) \/ MarkAsRead(s, r))
                => (messages' = messages /\ emits' = {})
       /\ \A t \in Pending :
            (/\ ~MapHas(onlineUsers, t.senderId)
             /\ MessageDeliveredUpdated(t) \/ MessageReadUpdated(t))
                => /\ emits' = {}
                   /\ t.target = None
                        => messages'[t.mid].status =
                              IF t.op = "messageRead" THEN "read" ELSE "delivered"
                   /\ (t.target # None /\ t.op = "messageDelivered")
                        => t.userId \in SeqToSet(messages'[t.mid].deliveredTo)
                   /\ (t.target # None /\ t.op = "messageRead")
                        => t.userId \in SeqToSet(messages'[t.mid].readBy)]_vars

\* C19: the step that completes a bulk read of (senderId, receiverId) leaves
\* every direct message from senderId to receiverId with status read and
\* every other message as it was, and emits one aggregate event to the
\* handle of senderId if senderId is online and nothing otherwise.
C19_BulkReadFrame ==
    [][\A s \in Users, r \in Users :
          (tasks' = tasks /\ (MarkMessagesRead(s, r) \/ MarkAsRead(s, r)))
              => /\ Len(messages') = Len(messages)
                 /\ \A i \in Stored :
                        messages'[i] =
                            IF i \in FromTo(s, r)
                            THEN [messages[i] EXCEPT !.status = "read"]
                            ELSE messages[i]
                 /\ IF MapHas(onlineUsers, s)
                    THEN \E e \in emits' :
                            /\ emits' = {e}
                            /\ e.to = MapGet(onlineUsers, s)
                            /\ e.event \in {"messagesMarkedRead", "messagesRead"}
                            /\ e.userId = r
                    ELSE emits' = {}]_vars

\* C19, its case: u2 has read the messages of u1 in bulk: the message
\* u1 -> u2 is read, another message of the store is not, and u1 is sent the
\* aggregate event
C19_Witness ==
    /\ \E i \in FromTo("u1", "u2") : messages[i].status = "read"
    /\ \E i \in Stored \ FromTo("u1", "u2") : messages[i].status # "read"
    /\ \E e \in emits :
          /\ e.event = "messagesMarkedRead"
          /\ e.to = MapGet(onlineUsers, "u1")

\* the new-message events of a set of events, as <<handle, messageId>>
NewMessageEvents(es, name) ==
    {<<e.to, e.mid>> : e \in {x \in es : x.event = name}}

\* C21: the step that ends the populate of a persisted message, with success,
\* failure or timeout, emits the new-message event once to the handle of
\* each live recipient and to nobody else: for a direct message the receiver
\* if online, for a group message each online member other than the sender.
C21_EmitOncePerRecipient ==
    [][\A t \in Pending :
          /\ (SendMessagePopulated(t) \/ SendMessagePopulateFailed(t))
                => /\ Cardinality(emits') = Cardinality(NewMessageEvents(emits', "receiveMessage"))
                   /\ NewMessageEvents(emits', "receiveMessage") =
                        IF MapHas(onlineUsers, t.target)
                        THEN {<<MapGet(onlineUsers, t.target), t.mid>>}
                        ELSE {}
          /\ (SendGroupMessagePopulated(t) \/ SendGroupMessagePopulateFailed(t))
                => /\ Cardinality(emits') =
                        Cardinality(NewMessageEvents(emits', "receiveGroupMessage"))
                   /\ NewMessageEvents(emits', "receiveGroupMessage") =
                        {<<MapGet(onlineUsers, u), t.mid>> :
                            u \in {m \in Members(t.target) :
                                      m # t.senderId /\ MapHas(onlineUsers, m)}}]_vars

\* the target of a stored message: its receiver or its group
TargetOf(m) == IF m.groupId # None THEN m.groupId ELSE m.receiverId

\* C22: a send is answered 201 only once its message is in the store; a
\* create appends its message behind the stored ones and changes none of
\* them; and a send submitted when a message of the same sender and target
\* is already stored (its response can only have been issued from then on)
\* gets a createdAt that is not earlier than that message's.
C22_PersistBeforeResponse ==
    [][/\ (resp'.op \in {"sendMessage", "sendGroupMessage"} /\ resp'.code = 201)
            => /\ resp'.id \in 1..Len(messages')
               /\ <<messages'[resp'.id].senderId, TargetOf(messages'[resp'.id]),
                    messages'[resp'.id].message>> = resp'.key
       /\ \A t \in Pending :
            (SendMessageCreated(t) \/ SendGroupMessageCreated(t))
                => /\ Len(messages') = Len(messages) + 1
                   /\ \A i \in Stored : messages'[i] = messages[i]
                   /\ messages'[Len(messages')].createdAt = t.startedAt
       /\ \A t \in BagToSet(tasks') :
            (Started(t) /\ t.pc = "create")
                => \A i \in Stored :
                      (messages[i].senderId = t.senderId
                          /\ TargetOf(messages[i]) = t.target)
                          => messages[i].createdAt <= t.startedAt]_vars

\* C22, its case: two messages of u1 to one target, the second submitted
\* after the first was stored, and the second is answered
C22_Witness ==
    /\ Len(messages) = 2
    /\ messages[1].senderId = messages[2].senderId
    /\ TargetOf(messages[1]) = TargetOf(messages[2])
    /\ messages[1].createdAt < messages[2].createdAt
    /\ resp.code = 201 /\ resp.id = 2

\* a messageDelivered of userId on the message i has been applied
DeliveredApplied(i, userId) ==
    IF messages[i].groupId # None
    THEN userId \in SeqToSet(messages[i].deliveredTo)
    ELSE messages[i].status # "sent"

\* C23: in the state a completed acknowledgment leaves, the same
\* acknowledgment changes no message: a second messageDelivered and a second
\* messageRead on a group message start no update, the update of a second
\* messageRead on a direct message and a second bulk read of the pair write
\* what is stored already.  (A step that is such a second application
\* leaves tasks and messages, or at least messages, as they were.)
C23_SecondAckChangesNothing ==
    [][\/ (tasks' = tasks /\ messages' = messages)
       \/ /\ \A i \in Stored, u \in Users :
                /\ DeliveredApplied(i, u) => ~MessageDelivered(i, u)
                /\ (/\ messages[i].groupId # None
                    /\ u \in SeqToSet(messages[i].readBy))
                      => ~MessageRead(i, u)
          /\ \/ messages' = messages
             \/ /\ \A t \in Pending :
                      (t.target = None /\ messages[t.mid].status = "read")
                          => ~MessageReadUpdated(t)
                /\ \A s \in Users, r \in Users :
                      (\A i \in FromTo(s, r) : messages[i].status = "read")
                          => ~(MarkMessagesRead(s, r) \/ MarkAsRead(s, r))]_vars

\* C23, its case: a messageRead is in flight on a direct message that is
\* read already, and u2 has an entry in deliveredTo and in readBy of a group
\* message
C23_Witness ==
    /\ \E t \in Pending :
          /\ t.op = "messageRead" /\ t.target = None
          /\ messages[t.mid].status = "read"
    /\ \E i \in Stored :
          /\ messages[i].groupId # None
          /\ "u2" \in SeqToSet(messages[i].deliveredTo)
          /\ "u2" \in SeqToSet(messages[i].readBy)

\* C24: every group send that passes validation, suppressed or let through,
\* leaves the suppression map with its key at the time of the call.
C24_CheckRecordsEveryCall ==
    [][\A s \in Users, g \in Groups, b \in Bodies :
          SendGroupMessage(s, g, b)
              => CacheGet(messageCache', <<s, g, b>>) = now]_vars

\* the times of a later duplicate check
LaterTimes == {now + k * TickMs : k \in 0..MaxTicks}

\* C25: a sweep removes exactly the entries whose timestamp is more than
\* 10000 ms old, leaves every other entry as it is, and changes the outcome
\* of no duplicate check made at the time of the sweep or later.
C25_SweepKeepsWindow ==
    [][SweepCache
          => /\ messageCache' = {e \in messageCache : now - e.ts <= Retention}
             /\ \A e \in messageCache : \A later \in LaterTimes :
                    IsDuplicate(CacheGet(messageCache', e.key), later)
                        = IsDuplicate(CacheGet(messageCache, e.key), later)]_vars

\* C25, its case: u1 and u2 have each sent to the group, more than 10000 ms
\* apart; the sweep has removed the older entry and kept the newer one
C25_Witness ==
    /\ Len(messages) = 2
    /\ messages[1].senderId # messages[2].senderId
    /\ messages[2].createdAt - messages[1].createdAt > Retention
    /\ messageCache = {[key |-> <<messages[2].senderId, "g1", "hi">>,
                        ts |-> messages[2].createdAt]}

\* C26: every messageStatusUpdate event names the status the message has
\* in storage once the acknowledgment has been applied; a delivered
\* acknowledgment for a message that is already read does not announce
\* delivered.
C26_EventNamesStoredStatus ==
    [][\A e \in emits' :
          e.event = "messageStatusUpdate" => messages'[e.mid].status = e.status]_vars

\* C27: the new-message event of a direct send goes only to the handle the
\* registry holds for the receiver at the moment of the emission.
C27_EmitToCurrentHandle ==
    [][\A t \in Pending :
          SendMessagePopulated(t)
              => \A e \in emits' : e.to = MapGet(onlineUsers, t.target)]_vars

\* C28: a failure of the populate of a send or of the bulk update of a
\* direct fetch answers no error, leaves the stored messages as they are and
\* does not escape as an unhandled rejection.
C28_FailuresAreDropped ==
    [][\A t \in Pending :
          (\/ SendMessagePopulateFailed(t)
           \/ SendGroupMessagePopulateFailed(t)
           \/ GetMessagesBulkFailed(t))
              => /\ resp'.code < 400
                 /\ messages' = messages
                 /\ \A e \in emits' : e.event # "unhandledRejection"]_vars

\* C29: every handle in the presence registry belongs to an open connection.
C29_RegistryHandlesOpen ==
    \A i \in 1..Len(onlineUsers) : sockets[onlineUsers[i][2]] = "open"

\* C30: a group message has status sent exactly when its deliveredTo is
\* empty.
C30_StatusAgreesWithDeliveredTo ==
    \A i \in Stored :
        messages[i].groupId # None
            => (messages[i].status = "sent" <=> messages[i].deliveredTo = <<>>)

\* C30, its case: a group message whose own sender is in deliveredTo, which
\* only a messageDelivered acknowledgment can add, next to a group message
\* that nobody has received
C30_Witness ==
    \E i \in Stored, j \in Stored :
        /\ messages[i].groupId # None
        /\ messages[i].senderId \in SeqToSet(messages[i].deliveredTo)
        /\ messages[i].status = "delivered"
        /\ messages[j].groupId # None
        /\ messages[j].deliveredTo = <<>>

\* C31: every userId in deliveredTo or readBy of a group message is a
\* member of the message's group and is not the sender of the message.
C31_RecipientsAreOtherMembers ==
    \A i \in Stored :
        messages[i].groupId # None
            => \A u \in SeqToSet(messages[i].deliveredTo) \cup SeqToSet(messages[i].readBy) :
                  /\ u \in Members(messages[i].groupId)
                  /\ u # messages[i].senderId

====
